---------------------------- MODULE Spec2Model ----------------------------
(***************************************************************************)
(* A model of the Go package vips (src/vips.go): the process-wide         *)
(* Initialize/Shutdown lifecycle, the Resize pipeline, AutoRotate, the     *)
(* orientation helpers and the crop-origin calculation.                    *)
(*                                                                         *)
(* The native engine (libvips) is a collaborator.  Each native call is an  *)
(* event; whether it succeeds is an input of the step that makes it.  A    *)
(* native image handle is an index into `handles`; 0 is the nil pointer.   *)
(* float64 values (factor, residual) are exact rationals <<n, d>>: for the *)
(* small integers of the model float64 division, floor and division by a   *)
(* power of two are exact or round to the same integer.                    *)
(***************************************************************************)
EXTENDS Integers, Sequences, FiniteSets, TLC

(***************************************************************************)
(* Program constants.                                                      *)
(***************************************************************************)
UNKNOWN == 0
JPEG == 1
PNG == 2
WEBP == 3

CENTRE == 0
NORTH == 1
EAST == 2
SOUTH == 3
WEST == 4
CUSTOM == 5

D0 == 0
D90 == 90
D180 == 180
D270 == 270

HORIZONTAL == 0
VERTICAL == 1
NoDirection == -1

DefaultQuality == 100

(***************************************************************************)
(* Bounds of the model.                                                    *)
(***************************************************************************)
MaxInWidth == 16     \* decoded image widths are 1..MaxInWidth
MaxInHeight == 3     \* decoded image heights are 1..MaxInHeight
MaxReq == 4          \* requested Width and Height are 0..MaxReq
MaxBufLen == 12      \* input buffers have 0..MaxBufLen bytes
MaxLifecycle == 3    \* native init/shutdown calls recorded per run
MaxCropIn == 4       \* sharpCalcCrop sizes are 1..MaxCropIn
FracBits == 1        \* custom gravity positions are k/2^FracBits, k in 0..2^FracBits
MaxExif == 9         \* EXIF orientation tags are 0..MaxExif (0: no tag)

(***************************************************************************)
(* Arithmetic helpers: Go integer division, and exact rationals.           *)
(***************************************************************************)
Min(a, b) == IF a <= b THEN a ELSE b
Max(a, b) == IF a >= b THEN a ELSE b
Abs(a) == IF a < 0 THEN -a ELSE a

\* Go's / on int truncates toward zero.
GoDiv(a, b) == IF a >= 0 THEN a \div b ELSE -((-a) \div b)
\* Go's % has the sign of the dividend.
GoRem(a, b) == a - b * GoDiv(a, b)

RECURSIVE Gcd(_, _)
Gcd(a, b) == IF b = 0 THEN a ELSE Gcd(b, a % b)

\* The rational n/d (n >= 0, d > 0) in lowest terms.
Q(n, d) == LET g == Gcd(n, d) IN <<n \div g, d \div g>>
QInt(k) == <<k, 1>>
QLe(a, b) == a[1] * b[2] <= b[1] * a[2]
QMin(a, b) == IF QLe(a, b) THEN a ELSE b
QMax(a, b) == IF QLe(a, b) THEN b ELSE a
QFloor(a) == a[1] \div a[2]
QDivInt(a, k) == Q(a[1], a[2] * k)
\* k / a for an integer k and a rational a > 0
IntDivQ(k, a) == Q(k * a[2], a[1])
\* w * r rounded to the nearest integer
QScale(w, r) == (2 * w * r[1] + r[2]) \div (2 * r[2])

(***************************************************************************)
(* Format detection (Resize, lines 139-150).  A buffer is its backing      *)
(* array `data` (Len(data) is the slice's capacity) and its length `len`.  *)
(* A Go slice expression buf[:k] panics when k exceeds the capacity, and   *)
(* reads bytes past the length when the capacity allows it.                *)
(***************************************************************************)
MARKER_JPEG == <<255, 216>>
MARKER_PNG == <<137, 80>>
MARKER_WEBP == <<87, 69, 66, 80>>
MARKER_RIFF == <<82, 73, 70, 70>>

\* What the switch at lines 141-150 does with buffer b: whether a slice
\* expression panics, the type found, and the highest index it read.
SniffFormat(b) ==
  LET cap == Len(b.data) IN
  IF cap < 2 THEN [panic |-> TRUE, typ |-> UNKNOWN, read |-> 0]
  ELSE IF SubSeq(b.data, 1, 2) = MARKER_JPEG
    THEN [panic |-> FALSE, typ |-> JPEG, read |-> 2]
  ELSE IF SubSeq(b.data, 1, 2) = MARKER_PNG
    THEN [panic |-> FALSE, typ |-> PNG, read |-> 2]
  ELSE IF cap < 4 THEN [panic |-> TRUE, typ |-> UNKNOWN, read |-> 2]
  ELSE IF SubSeq(b.data, 1, 4) # MARKER_RIFF
    THEN [panic |-> FALSE, typ |-> UNKNOWN, read |-> 4]
  ELSE IF cap < 12 THEN [panic |-> TRUE, typ |-> UNKNOWN, read |-> 4]
  ELSE IF SubSeq(b.data, 9, 12) = MARKER_WEBP
    THEN [panic |-> FALSE, typ |-> WEBP, read |-> 12]
  ELSE [panic |-> FALSE, typ |-> UNKNOWN, read |-> 12]

(***************************************************************************)
(* Resize planning (Resize, lines 180-247).                                *)
(***************************************************************************)
\* lines 184-207: the scale factor and the derived target size
PlanSize(inW, inH, o) ==
  IF o.Width > 0 /\ o.Height > 0 THEN
    LET xf == Q(inW, o.Width)
        yf == Q(inH, o.Height)
    IN [factor |-> IF o.Crop THEN QMin(xf, yf) ELSE QMax(xf, yf),
        Width |-> o.Width, Height |-> o.Height]
  ELSE IF o.Width > 0 THEN
    LET f == Q(inW, o.Width)
    IN [factor |-> f, Width |-> o.Width, Height |-> QFloor(IntDivQ(inH, f))]
  ELSE IF o.Height > 0 THEN
    LET f == Q(inH, o.Height)
    IN [factor |-> f, Width |-> QFloor(IntDivQ(inW, f)), Height |-> o.Height]
  ELSE [factor |-> QInt(1), Width |-> inW, Height |-> inH]

\* lines 212-215
IntegralShrink(f) == IF QFloor(f) < 1 THEN 1 ELSE QFloor(f)

\* EnlargeGuard with the comparisons the wrong way round
EnlargeGuard_Reversed(enlarge, inW, inH, w, h) == ~enlarge /\ inW > w /\ inH > h

\* lines 221-222: the condition under which the plan is reset to identity
EnlargeGuard(enlarge, inW, inH, w, h) == ~enlarge /\ inW < w /\ inH < h

\* ShrinkOnLoadFor with > for >= in the thresholds
ShrinkOnLoadFor_OffByOne(t, s) ==
  IF t = JPEG /\ s > 2
    THEN IF s > 8 THEN 8 ELSE IF s > 4 THEN 4 ELSE 2
    ELSE 1

\* lines 234-247: the libjpeg shrink-on-load factor
ShrinkOnLoadFor(t, s) ==
  IF t = JPEG /\ s >= 2
    THEN IF s >= 8 THEN 8 ELSE IF s >= 4 THEN 4 ELSE 2
    ELSE 1

\* lines 180-247 as a whole
Plan(t, inW, inH, o) ==
  LET ps == PlanSize(inW, inH, o)
      s0 == IntegralShrink(ps.factor)
      r0 == IntDivQ(s0, ps.factor)
      g == EnlargeGuard(o.Enlarge, inW, inH, ps.Width, ps.Height)
      f1 == IF g THEN QInt(1) ELSE ps.factor
      s1 == IF g THEN 1 ELSE s0
      sol == ShrinkOnLoadFor(t, s1)
  IN [factor |-> IF sol > 1 THEN QDivInt(f1, sol) ELSE f1,
      shrink |-> s1,
      residual |-> IF g THEN QInt(0) ELSE r0,
      shrinkOnLoad |-> sol,
      o |-> [o EXCEPT !.Width = IF g THEN inW ELSE ps.Width,
                      !.Height = IF g THEN inH ELSE ps.Height]]

(***************************************************************************)
(* sharpCalcCrop (lines 385-417).  A custom position is the numerator of   *)
(* a fraction over FracDen, a power of two, so the float32 products are    *)
(* exact.                                                                  *)
(***************************************************************************)
FracDen == 2 ^ FracBits

\* sharpCalcCrop without the clamp of a custom position
sharpCalcCrop_NoClamp(inWidth, inHeight, outWidth, outHeight, customLeftPos, customTopPos, gravity) ==
  IF gravity = NORTH THEN <<GoDiv(inWidth - outWidth + 1, 2), 0>>
  ELSE IF gravity = EAST
    THEN <<inWidth - outWidth, GoDiv(inHeight - outHeight + 1, 2)>>
  ELSE IF gravity = SOUTH
    THEN <<GoDiv(inWidth - outWidth + 1, 2), inHeight - outHeight>>
  ELSE IF gravity = WEST THEN <<0, GoDiv(inHeight - outHeight + 1, 2)>>
  ELSE IF gravity = CUSTOM THEN
    <<GoDiv(inWidth * customLeftPos, FracDen),
      GoDiv(inHeight * customTopPos, FracDen)>>
  ELSE <<GoDiv(inWidth - outWidth + 1, 2), GoDiv(inHeight - outHeight + 1, 2)>>

sharpCalcCrop(inWidth, inHeight, outWidth, outHeight, customLeftPos, customTopPos, gravity) ==
  IF gravity = NORTH THEN <<GoDiv(inWidth - outWidth + 1, 2), 0>>
  ELSE IF gravity = EAST
    THEN <<inWidth - outWidth, GoDiv(inHeight - outHeight + 1, 2)>>
  ELSE IF gravity = SOUTH
    THEN <<GoDiv(inWidth - outWidth + 1, 2), inHeight - outHeight>>
  ELSE IF gravity = WEST THEN <<0, GoDiv(inHeight - outHeight + 1, 2)>>
  ELSE IF gravity = CUSTOM THEN
    <<IF inWidth * customLeftPos + outWidth * FracDen > inWidth * FracDen
        THEN inWidth - outWidth
        ELSE GoDiv(inWidth * customLeftPos, FracDen),
      IF inHeight * customTopPos + outHeight * FracDen > inHeight * FracDen
        THEN inHeight - outHeight
        ELSE GoDiv(inHeight * customTopPos, FracDen)>>
  ELSE <<GoDiv(inWidth - outWidth + 1, 2), GoDiv(inHeight - outHeight + 1, 2)>>

(***************************************************************************)
(* Orientation helpers (lines 462-508).                                    *)
(***************************************************************************)
\* getAngle: round down to a multiple of 90, cap at 270
getAngle(angle) ==
  LET divisor == GoRem(angle, 90)
      a == IF divisor # 0 THEN angle - divisor ELSE angle
  IN Min(a, 270)

\* calculateRotationAndFlip without the early return on a caller's angle
calculateRotationAndFlip_NoEarlyReturn(exif, angle) ==
  IF exif = 6 THEN [rotate |-> D90, flip |-> FALSE]
  ELSE IF exif = 3 THEN [rotate |-> D180, flip |-> FALSE]
  ELSE IF exif = 8 THEN [rotate |-> D270, flip |-> FALSE]
  ELSE IF exif = 2 THEN [rotate |-> D0, flip |-> TRUE]
  ELSE IF exif = 7 THEN [rotate |-> D90, flip |-> TRUE]
  ELSE IF exif = 4 THEN [rotate |-> D180, flip |-> TRUE]
  ELSE IF exif = 5 THEN [rotate |-> D270, flip |-> TRUE]
  ELSE [rotate |-> D0, flip |-> FALSE]

\* calculateRotationAndFlip; the image is given by its EXIF orientation tag
calculateRotationAndFlip(exif, angle) ==
  IF angle > 0 THEN [rotate |-> D0, flip |-> FALSE]
  ELSE IF exif = 6 THEN [rotate |-> D90, flip |-> FALSE]
  ELSE IF exif = 3 THEN [rotate |-> D180, flip |-> FALSE]
  ELSE IF exif = 8 THEN [rotate |-> D270, flip |-> FALSE]
  ELSE IF exif = 2 THEN [rotate |-> D0, flip |-> TRUE]
  ELSE IF exif = 7 THEN [rotate |-> D90, flip |-> TRUE]
  ELSE IF exif = 4 THEN [rotate |-> D180, flip |-> TRUE]
  ELSE IF exif = 5 THEN [rotate |-> D270, flip |-> TRUE]
  ELSE [rotate |-> D0, flip |-> FALSE]

(***************************************************************************)
(* State.                                                                  *)
(***************************************************************************)
VARIABLES
  initialized,   \* the package variable `initialized` (line 100)
  lifecycle,     \* the native lifecycle calls made so far, oldest first
  call,          \* the exported function running, "none" between calls
  pc,            \* the position inside that function
  buf,           \* Resize: the input buffer
  callOpts,      \* the Options value the caller passed (Go passes a copy)
  o,             \* the function's own, mutable copy of the Options
  typ,           \* Resize: the detected image type
  image,         \* the local `image`: a handle, 0 for nil
  tmpImage,      \* the local `tmpImage`
  inWidth,       \* Resize: the decoded image's width
  inHeight,      \* Resize: the decoded image's height
  factor,        \* Resize: the local `factor`
  shrink,        \* Resize: the local `shrink`
  residual,      \* Resize: the local `residual`
  shrinkOnLoad,  \* Resize: the local `shrinkOnLoad`
  handles,       \* the native images created during the call, by handle
  events,        \* the native image operations of the call, oldest first
  ret,           \* how the call ended
  crop           \* sharpCalcCrop: its arguments and its result

vars == <<initialized, lifecycle, call, pc, buf, callOpts, o, typ, image,
          tmpImage, inWidth, inHeight, factor, shrink, residual, shrinkOnLoad,
          handles, events, ret, crop>>

lifeVars == <<initialized, lifecycle>>
planVars == <<factor, shrink, residual, shrinkOnLoad>>
sizeVars == <<inWidth, inHeight>>
argVars == <<buf, callOpts, typ>>

\* The zero value of Options (lines 77-94); Extend and Interpolator are
\* only handed to the native engine and are left out.
ZeroOptions ==
  [Height |-> 0, Width |-> 0, Crop |-> FALSE, Enlarge |-> FALSE,
   Embed |-> FALSE, Gravity |-> CENTRE, Quality |-> 0, LeftPos |-> 0,
   TopPos |-> 0, Savetype |-> UNKNOWN, NoAutoRotate |-> FALSE,
   Rotate |-> D0, Flip |-> FALSE, Flop |-> FALSE]

NoBuf == [data |-> <<>>, len |-> 0]
NoCrop == [inWidth |-> 0, inHeight |-> 0, outWidth |-> 0, outHeight |-> 0,
           gravity |-> CENTRE, leftPos |-> 0, topPos |-> 0,
           left |-> 0, top |-> 0]
NoRet == [kind |-> "none", buf |-> "nil", err |-> "nil", w |-> 0, h |-> 0]
Panic == [kind |-> "panic", buf |-> "nil", err |-> "nil", w |-> 0, h |-> 0]
ReturnError(msg) ==
  [kind |-> "return", buf |-> "nil", err |-> msg, w |-> 0, h |-> 0]
\* resizeError (lines 368-372) and catchVipsError (lines 426-431): the
\* native engine's last error message
resizeError == ReturnError("vips")
catchVipsError == ReturnError("vips")

(***************************************************************************)
(* Inputs.                                                                 *)
(***************************************************************************)
Patterns == {"jpeg", "png", "webp", "riff", "zero"}
PatternByte(k, i) ==
  IF k = "jpeg" /\ i <= 2 THEN MARKER_JPEG[i]
  ELSE IF k = "png" /\ i <= 2 THEN MARKER_PNG[i]
  ELSE IF k \in {"webp", "riff"} /\ i <= 4 THEN MARKER_RIFF[i]
  ELSE IF k = "webp" /\ i \in 9..12 THEN MARKER_WEBP[i - 8]
  ELSE 0
Buffer(k, n, c) == [data |-> [i \in 1..c |-> PatternByte(k, i)], len |-> n]
Bufs == {Buffer(k, n, c) : k \in Patterns, n \in 0..MaxBufLen, c \in {MaxBufLen}}
         \cup {Buffer(k, n, n) : k \in Patterns, n \in 0..MaxBufLen}
WellFormedBufs == {Buffer(k, MaxBufLen, MaxBufLen) : k \in {"jpeg", "png", "webp"}}

Gravities == CENTRE..(CUSTOM + 1)
Positions == 0..FracDen
Angles == {-90, 0, 45, 90, 180, 270, 360}
ExifTags == 0..MaxExif

GeometryOpts ==
  {[ZeroOptions EXCEPT !.Width = w, !.Height = h, !.Crop = c, !.Enlarge = e,
                       !.Embed = m] :
     w \in 0..MaxReq, h \in 0..MaxReq, c \in BOOLEAN, e \in BOOLEAN,
     m \in BOOLEAN}
GravityOpts ==
  {[ZeroOptions EXCEPT !.Width = 1, !.Height = 1, !.Crop = TRUE,
                       !.Gravity = g] : g \in Gravities}
  \cup {[ZeroOptions EXCEPT !.Width = 1, !.Height = 1, !.Crop = TRUE,
                       !.Gravity = CUSTOM, !.LeftPos = l, !.TopPos = t] :
     l \in Positions, t \in Positions}
OutputOpts ==
  {[ZeroOptions EXCEPT !.Savetype = t, !.Quality = q, !.NoAutoRotate = n] :
     t \in {UNKNOWN, JPEG, PNG, WEBP}, q \in {0, 80}, n \in BOOLEAN}
OrientOpts ==
  {[ZeroOptions EXCEPT !.NoAutoRotate = n, !.Rotate = a, !.Flip = f,
                       !.Flop = g] :
     n \in BOOLEAN, a \in Angles, f \in BOOLEAN, g \in BOOLEAN}
ResizeOpts == GeometryOpts \cup GravityOpts \cup OutputOpts

\* Every buffer with the default options, and every option set with a
\* well-formed buffer of each type.
ResizeInputs == (Bufs \X {ZeroOptions}) \cup (WellFormedBufs \X ResizeOpts)

\* What a decoder finds in the buffer: every size without an orientation
\* tag, and every orientation tag on the smallest image.
ImageInputs ==
  {[w |-> w, h |-> h, exif |-> 0] : w \in 1..MaxInWidth, h \in 1..MaxInHeight}
  \cup {[w |-> 1, h |-> 1, exif |-> e] : e \in ExifTags}

(***************************************************************************)
(* The native heap.                                                        *)
(***************************************************************************)
NewImage(w, h, exif) == [w |-> w, h |-> h, exif |-> exif, unrefs |-> 0]
\* g_object_unref(image); on nil it only logs a warning
Unref(hs, id) == IF id = 0 THEN hs ELSE [hs EXCEPT ![id].unrefs = @ + 1]
Stale(id) == id # 0 /\ handles[id].unrefs > 0
Event(op, id, arg, ok) ==
  [op |-> op, img |-> id, arg |-> arg, ok |-> ok, stale |-> Stale(id)]
LoadOp(t) ==
  IF t = JPEG THEN "jpegload" ELSE IF t = PNG THEN "pngload" ELSE "webpload"
SaveOp(t) ==
  IF t = WEBP THEN "webpsave" ELSE IF t = PNG THEN "pngsave" ELSE "jpegsave"

Init ==
  /\ initialized = TRUE          \* init() (lines 96-98) has run Initialize
  /\ lifecycle = <<"init">>
  /\ call = "none"
  /\ pc = "idle"
  /\ buf = NoBuf
  /\ callOpts = ZeroOptions
  /\ o = ZeroOptions
  /\ typ = UNKNOWN
  /\ image = 0
  /\ tmpImage = 0
  /\ inWidth = 0
  /\ inHeight = 0
  /\ factor = QInt(0)
  /\ shrink = 0
  /\ residual = QInt(0)
  /\ shrinkOnLoad = 0
  /\ handles = <<>>
  /\ events = <<>>
  /\ ret = NoRet
  /\ crop = NoCrop

(***************************************************************************)
(* Initialize (lines 102-120) and Shutdown (lines 122-130).                *)
(***************************************************************************)
\* Initialize without the `if initialized` guard
Initialize_NoGuard ==
  /\ pc = "idle"
  /\ Len(lifecycle) < MaxLifecycle
  /\ lifecycle' = Append(lifecycle, "init")
  /\ initialized' = TRUE
  /\ UNCHANGED <<call, pc, argVars, o, image, tmpImage, sizeVars, planVars,
                 handles, events, ret, crop>>

Initialize ==
  /\ pc = "idle"
  /\ IF initialized
       THEN UNCHANGED lifeVars
       ELSE /\ Len(lifecycle) < MaxLifecycle
            /\ \E err \in {0, 1} :
                 IF err # 0
                   THEN \* C.vips_shutdown(); panic("unable to start vips!")
                        /\ lifecycle' = lifecycle \o <<"init_failed", "shutdown">>
                        /\ UNCHANGED initialized
                   ELSE /\ lifecycle' = Append(lifecycle, "init")
                        /\ initialized' = TRUE
  /\ UNCHANGED <<call, pc, argVars, o, image, tmpImage, sizeVars, planVars,
                 handles, events, ret, crop>>

Shutdown ==
  /\ pc = "idle"
  /\ IF ~initialized
       THEN UNCHANGED lifeVars
       ELSE /\ Len(lifecycle) < MaxLifecycle
            /\ lifecycle' = Append(lifecycle, "shutdown")
            /\ initialized' = FALSE
  /\ UNCHANGED <<call, pc, argVars, o, image, tmpImage, sizeVars, planVars,
                 handles, events, ret, crop>>

(***************************************************************************)
(* Resize (lines 136-366), one action per native call and the Go code      *)
(* around it.  A checked native failure returns resizeError(); the         *)
(* deferred cleanup (lines 166-169) touches no image handle.               *)
(***************************************************************************)
\* lines 136-150: the call and the format check
ResizeCall ==
  /\ pc = "idle"
  /\ \E in \in ResizeInputs :
       LET sn == SniffFormat(in[1]) IN
       /\ call' = "Resize"
       /\ buf' = in[1]
       /\ callOpts' = in[2]
       /\ o' = in[2]
       /\ typ' = sn.typ
       /\ IF sn.panic
            THEN pc' = "done" /\ ret' = Panic   \* slice bounds out of range
            ELSE IF sn.typ = UNKNOWN
              THEN pc' = "done" /\ ret' = ReturnError("unknown image format")
              ELSE pc' = "load" /\ ret' = NoRet
  /\ UNCHANGED <<lifeVars, image, tmpImage, sizeVars, planVars, handles,
                 events, crop>>

\* lines 152-178: decode, default quality, read the size.  The decoder's
\* status is not looked at; a failed decode leaves `image` nil and
\* image.Xsize dereferences it.
ResizeLoad ==
  /\ pc = "load"
  /\ \E ok \in BOOLEAN, im \in ImageInputs :
       IF buf.len = 0
         THEN \* &buf[0]: index out of range
              /\ pc' = "done" /\ ret' = Panic
              /\ UNCHANGED <<o, image, sizeVars, handles, events>>
         ELSE /\ events' = Append(events, Event(LoadOp(typ), 0, 0, ok))
              /\ handles' = IF ok THEN Append(handles, NewImage(im.w, im.h, im.exif))
                                  ELSE handles
              /\ image' = IF ok THEN Len(handles) + 1 ELSE image
              /\ o' = [o EXCEPT !.Quality = IF @ = 0 THEN DefaultQuality ELSE @]
              /\ IF ok
                   THEN /\ inWidth' = im.w /\ inHeight' = im.h
                        /\ pc' = "plan" /\ UNCHANGED ret
                   ELSE /\ pc' = "done" /\ ret' = Panic   \* nil dereference
                        /\ UNCHANGED sizeVars
  /\ UNCHANGED <<lifeVars, call, argVars, tmpImage, planVars, crop>>

\* lines 180-247: the plan
ResizePlan ==
  /\ pc = "plan"
  /\ LET p == Plan(typ, inWidth, inHeight, o) IN
       /\ factor' = p.factor
       /\ shrink' = p.shrink
       /\ residual' = p.residual
       /\ shrinkOnLoad' = p.shrinkOnLoad
       /\ o' = p.o
  /\ pc' = "reload"
  /\ UNCHANGED <<lifeVars, call, argVars, image, tmpImage, sizeVars, handles,
                 events, ret, crop>>

\* ceil(a / b): the size libjpeg decodes to with shrink-on-load
CeilDiv(a, b) == (a + b - 1) \div b

\* lines 249-262: decode again with shrink-on-load
ResizeReload ==
  /\ pc = "reload"
  /\ IF shrinkOnLoad > 1
       THEN \E ok \in BOOLEAN :
         LET f == QMax(factor, QInt(1))
             s == QFloor(f)
             made == IF ok
                       THEN Append(handles,
                              NewImage(CeilDiv(handles[image].w, shrinkOnLoad),
                                       CeilDiv(handles[image].h, shrinkOnLoad),
                                       handles[image].exif))
                       ELSE handles
             out == IF ok THEN Len(handles) + 1 ELSE tmpImage
         IN /\ factor' = f
            /\ shrink' = s
            /\ residual' = IntDivQ(s, f)
            /\ events' = Append(events, Event("jpegload_shrink", 0, shrinkOnLoad, ok))
            /\ handles' = Unref(made, image)
            /\ tmpImage' = out
            /\ image' = out
            /\ IF ok THEN pc' = "shrink" /\ UNCHANGED ret
                     ELSE pc' = "done" /\ ret' = resizeError
            /\ UNCHANGED shrinkOnLoad
       ELSE /\ pc' = "shrink"
            /\ UNCHANGED <<planVars, image, tmpImage, handles, events, ret>>
  /\ UNCHANGED <<lifeVars, call, argVars, o, sizeVars, crop>>

\* lines 264-285: the integral shrink; vips_shrink fails on an image that
\* would shrink to nothing
ResizeShrink ==
  /\ pc = "shrink"
  /\ IF shrink > 1
       THEN \E okIn \in BOOLEAN :
         LET shrunkWidth == handles[image].w \div shrink
             shrunkHeight == handles[image].h \div shrink
             ok == okIn /\ shrunkWidth >= 1 /\ shrunkHeight >= 1
             made == IF ok
                       THEN Append(handles, NewImage(shrunkWidth, shrunkHeight,
                                                     handles[image].exif))
                       ELSE handles
             out == IF ok THEN Len(handles) + 1 ELSE tmpImage
         IN /\ events' = Append(events, Event("shrink", image, shrink, ok))
            /\ handles' = Unref(made, image)
            /\ tmpImage' = out
            /\ image' = out
            /\ IF ok
                 THEN LET residualx == Q(o.Width, shrunkWidth)
                          residualy == Q(o.Height, shrunkHeight)
                      IN /\ residual' = IF o.Crop THEN QMax(residualx, residualy)
                                                  ELSE QMin(residualx, residualy)
                         /\ pc' = "affine" /\ UNCHANGED ret
                 ELSE /\ pc' = "done" /\ ret' = resizeError
                      /\ UNCHANGED residual
       ELSE /\ pc' = "affine"
            /\ UNCHANGED <<residual, image, tmpImage, handles, events, ret>>
  /\ UNCHANGED <<lifeVars, call, argVars, o, sizeVars, factor, shrink,
                 shrinkOnLoad, crop>>

\* lines 287-307: the residual affine scale; vips_affine fails on an empty
\* output
ResizeAffine ==
  /\ pc = "affine"
  /\ IF residual # QInt(0)
       THEN \E okIn \in BOOLEAN :
         LET w == QScale(handles[image].w, residual)
             h == QScale(handles[image].h, residual)
             ok == okIn /\ w >= 1 /\ h >= 1
             made == IF ok THEN Append(handles, NewImage(w, h, handles[image].exif))
                           ELSE handles
             out == IF ok THEN Len(handles) + 1 ELSE tmpImage
         IN /\ events' = Append(events, Event("affine", image, residual, ok))
            /\ handles' = Unref(made, image)
            /\ tmpImage' = out
            /\ image' = out
            /\ IF ok THEN pc' = "canvas" /\ UNCHANGED ret
                     ELSE pc' = "done" /\ ret' = resizeError
       ELSE /\ pc' = "canvas"
            /\ UNCHANGED <<image, tmpImage, handles, events, ret>>
  /\ UNCHANGED <<lifeVars, call, argVars, o, sizeVars, planVars, crop>>

\* lines 309-339: crop or embed when the size is not yet the target;
\* vips_extract_area fails on an area outside the image
ResizeCanvas ==
  /\ pc = "canvas"
  /\ LET affinedWidth == handles[image].w
         affinedHeight == handles[image].h
     IN
     IF (affinedWidth # o.Width \/ affinedHeight # o.Height) /\ o.Crop
       THEN \E okIn \in BOOLEAN :
         LET lt == sharpCalcCrop(affinedWidth, affinedHeight, o.Width, o.Height,
                                 o.LeftPos, o.TopPos, o.Gravity)
             w == Min(affinedWidth, o.Width)
             h == Min(affinedHeight, o.Height)
             ok == /\ okIn /\ w >= 1 /\ h >= 1 /\ lt[1] >= 0 /\ lt[2] >= 0
                   /\ lt[1] + w <= affinedWidth /\ lt[2] + h <= affinedHeight
             made == IF ok THEN Append(handles, NewImage(w, h, handles[image].exif))
                           ELSE handles
             out == IF ok THEN Len(handles) + 1 ELSE tmpImage
         IN /\ o' = [o EXCEPT !.Width = w, !.Height = h]
            /\ events' = Append(events, Event("extract_area", image, lt, ok))
            /\ handles' = Unref(made, image)
            /\ tmpImage' = out
            /\ image' = out
            /\ IF ok THEN pc' = "colourspace" /\ UNCHANGED ret
                     ELSE pc' = "done" /\ ret' = resizeError
     ELSE IF (affinedWidth # o.Width \/ affinedHeight # o.Height) /\ o.Embed
       THEN \E okIn \in BOOLEAN :
         LET left == GoDiv(o.Width - affinedWidth, 2)
             top == GoDiv(o.Height - affinedHeight, 2)
             ok == okIn /\ o.Width >= 1 /\ o.Height >= 1
             made == IF ok
                       THEN Append(handles, NewImage(o.Width, o.Height,
                                                     handles[image].exif))
                       ELSE handles
             out == IF ok THEN Len(handles) + 1 ELSE tmpImage
         IN /\ events' = Append(events, Event("embed", image, <<left, top>>, ok))
            /\ handles' = Unref(made, image)
            /\ tmpImage' = out
            /\ image' = out
            /\ IF ok THEN pc' = "colourspace" /\ UNCHANGED ret
                     ELSE pc' = "done" /\ ret' = resizeError
            /\ UNCHANGED o
     ELSE /\ pc' = "colourspace"
          /\ UNCHANGED <<o, image, tmpImage, handles, events, ret>>
  /\ UNCHANGED <<lifeVars, call, argVars, sizeVars, planVars, crop>>

\* lines 341-344: the conversion to sRGB; its status is not looked at, and
\* on failure `tmpImage` still holds what the step before left in it
ResizeColourspace ==
  /\ pc = "colourspace"
  /\ \E ok \in BOOLEAN :
       LET made == IF ok
                     THEN Append(handles, NewImage(handles[image].w, handles[image].h,
                                                   handles[image].exif))
                     ELSE handles
           out == IF ok THEN Len(handles) + 1 ELSE tmpImage
       IN /\ events' = Append(events, Event("colourspace", image, 0, ok))
          /\ handles' = Unref(made, image)
          /\ tmpImage' = out
          /\ image' = out
  /\ pc' = "save"
  /\ UNCHANGED <<lifeVars, call, argVars, o, sizeVars, planVars, ret, crop>>

\* lines 346-366: encode, release, return; the encoder's status is not
\* looked at, and C.GoBytes of a null pointer is an empty slice
ResizeSave ==
  /\ pc = "save"
  /\ \E okIn \in BOOLEAN :
       LET ok == okIn /\ image # 0 IN
       /\ events' = Append(events, Event(SaveOp(o.Savetype), image, o.Quality, ok))
       /\ handles' = Unref(handles, image)
       /\ ret' = [kind |-> "return", buf |-> IF ok THEN "image" ELSE "empty",
                  err |-> "nil",
                  w |-> IF ok THEN handles[image].w ELSE 0,
                  h |-> IF ok THEN handles[image].h ELSE 0]
  /\ pc' = "done"
  /\ UNCHANGED <<lifeVars, call, argVars, o, image, tmpImage, sizeVars,
                 planVars, crop>>

\* the caller takes the result; the next call starts afresh
CallReturn ==
  /\ pc = "done"
  /\ call' = "none"
  /\ pc' = "idle"
  /\ buf' = NoBuf
  /\ callOpts' = ZeroOptions
  /\ o' = ZeroOptions
  /\ typ' = UNKNOWN
  /\ image' = 0
  /\ tmpImage' = 0
  /\ inWidth' = 0
  /\ inHeight' = 0
  /\ factor' = QInt(0)
  /\ shrink' = 0
  /\ residual' = QInt(0)
  /\ shrinkOnLoad' = 0
  /\ handles' = <<>>
  /\ events' = <<>>
  /\ ret' = NoRet
  /\ crop' = NoCrop
  /\ UNCHANGED lifeVars

(***************************************************************************)
(* AutoRotate (lines 541-615).                                             *)
(***************************************************************************)
\* lines 566-578: load the file
AutoRotateCall ==
  /\ pc = "idle"
  /\ \E op \in OutputOpts, ok \in BOOLEAN, e \in ExifTags :
       /\ call' = "AutoRotate"
       /\ callOpts' = op
       /\ o' = op
       /\ events' = <<Event("load_from_file", 0, 0, ok)>>
       /\ handles' = IF ok THEN <<NewImage(1, 1, e)>> ELSE <<>>
       /\ image' = IF ok THEN 1 ELSE 0
       /\ IF ok THEN pc' = "ar_resolve" /\ ret' = NoRet
                ELSE pc' = "done" /\ ret' = catchVipsError
  /\ UNCHANGED <<lifeVars, buf, typ, tmpImage, sizeVars, planVars, crop>>

\* lines 580-584: nothing to do when the tag asks for no rotation or flip
AutoRotateResolve ==
  /\ pc = "ar_resolve"
  /\ LET rf == calculateRotationAndFlip(handles[image].exif, 0) IN
       IF rf.rotate = 0 /\ ~rf.flip
         THEN pc' = "done" /\ ret' = ReturnError("nil")   \* return nil, nil
         ELSE pc' = "ar_autorot" /\ UNCHANGED ret
  /\ UNCHANGED <<lifeVars, call, argVars, o, image, tmpImage, sizeVars,
                 planVars, handles, events, crop>>

\* lines 586-594: vips_autorot and the default quality
AutoRotateApply ==
  /\ pc = "ar_autorot"
  /\ \E ok \in BOOLEAN :
       /\ events' = Append(events, Event("autorotate", image, 0, ok))
       /\ handles' = IF ok
                       THEN Append(handles, NewImage(handles[image].w,
                                                     handles[image].h, 1))
                       ELSE handles
       /\ tmpImage' = IF ok THEN Len(handles) + 1 ELSE tmpImage
       /\ IF ok
            THEN /\ o' = [o EXCEPT !.Quality = IF @ = 0 THEN DefaultQuality ELSE @]
                 /\ pc' = "ar_save" /\ UNCHANGED ret
            ELSE /\ pc' = "done" /\ ret' = catchVipsError
                 /\ UNCHANGED o
  /\ UNCHANGED <<lifeVars, call, argVars, image, sizeVars, planVars, crop>>

\* lines 596-615: encode tmpImage, release it, return
AutoRotateSave ==
  /\ pc = "ar_save"
  /\ \E okIn \in BOOLEAN :
       LET ok == okIn /\ tmpImage # 0 IN
       /\ events' = Append(events, Event(SaveOp(o.Savetype), tmpImage, o.Quality, ok))
       /\ handles' = Unref(handles, tmpImage)
       /\ ret' = [kind |-> "return", buf |-> IF ok THEN "image" ELSE "empty",
                  err |-> "nil",
                  w |-> IF ok THEN handles[tmpImage].w ELSE 0,
                  h |-> IF ok THEN handles[tmpImage].h ELSE 0]
  /\ pc' = "done"
  /\ UNCHANGED <<lifeVars, call, argVars, o, image, tmpImage, sizeVars,
                 planVars, crop>>

(***************************************************************************)
(* rotateAndFlipImage (lines 510-539) with vipsRotate (438-448) and        *)
(* vipsFlip (450-460).  No function of the package calls it; it is run     *)
(* here on an image its caller has loaded.                                 *)
(***************************************************************************)
RotateAndFlipCall ==
  /\ pc = "idle"
  /\ \E op \in OrientOpts, e \in ExifTags :
       /\ callOpts' = op
       /\ o' = op
       /\ handles' = <<NewImage(1, 1, e)>>
  /\ call' = "rotateAndFlipImage"
  /\ image' = 1
  /\ events' = <<>>
  /\ ret' = NoRet
  /\ pc' = "rf_resolve"
  /\ UNCHANGED <<lifeVars, buf, typ, tmpImage, sizeVars, planVars, crop>>

\* lines 514-522: fold the EXIF orientation into the options
RotateAndFlipResolve ==
  /\ pc = "rf_resolve"
  /\ IF o.NoAutoRotate = FALSE
       THEN LET rf == calculateRotationAndFlip(handles[image].exif, o.Rotate) IN
            o' = [o EXCEPT !.Flip = IF rf.flip THEN rf.flip ELSE @,
                           !.Rotate = IF rf.rotate > D0 /\ @ = 0 THEN rf.rotate
                                                                 ELSE @]
       ELSE UNCHANGED o
  /\ pc' = "rf_rotate"
  /\ UNCHANGED <<lifeVars, call, argVars, image, tmpImage, sizeVars, planVars,
                 handles, events, ret, crop>>

\* lines 524-526 and vipsRotate: the input is released on every path, and
\* a failure returns a nil image
RotateAndFlipRotate ==
  /\ pc = "rf_rotate"
  /\ IF o.Rotate > 0
       THEN \E ok \in BOOLEAN :
         LET made == IF ok THEN Append(handles, NewImage(handles[image].w,
                                                         handles[image].h,
                                                         handles[image].exif))
                           ELSE handles
         IN /\ events' = Append(events, Event("rotate", image, getAngle(o.Rotate), ok))
            /\ handles' = Unref(made, image)
            /\ image' = IF ok THEN Len(handles) + 1 ELSE 0
            /\ ret' = [ret EXCEPT !.err = IF ok THEN "nil" ELSE "vips"]
       ELSE UNCHANGED <<image, handles, events, ret>>
  /\ pc' = "rf_flip"
  /\ UNCHANGED <<lifeVars, call, argVars, o, tmpImage, sizeVars, planVars, crop>>

\* lines 528-538 and vipsFlip: flip wins over flop, and the flip's status
\* replaces the rotation's
RotateAndFlipFlip ==
  /\ pc = "rf_flip"
  /\ LET direction == IF o.Flip THEN HORIZONTAL
                      ELSE IF o.Flop THEN VERTICAL ELSE NoDirection
     IN
     IF direction # NoDirection
       THEN \E okIn \in BOOLEAN :
         LET ok == okIn /\ image # 0
             made == IF ok THEN Append(handles, NewImage(handles[image].w,
                                                         handles[image].h,
                                                         handles[image].exif))
                           ELSE handles
         IN /\ events' = Append(events, Event("flip", image, direction, ok))
            /\ handles' = Unref(made, image)
            /\ image' = IF ok THEN Len(handles) + 1 ELSE 0
            /\ ret' = [ret EXCEPT !.kind = "return",
                                  !.err = IF ok THEN "nil" ELSE "vips"]
       ELSE /\ ret' = [ret EXCEPT !.kind = "return"]
            /\ UNCHANGED <<image, handles, events>>
  /\ pc' = "done"
  /\ UNCHANGED <<lifeVars, call, argVars, o, tmpImage, sizeVars, planVars, crop>>

(***************************************************************************)
(* sharpCalcCrop called on its own.                                        *)
(***************************************************************************)
CalcCropCall ==
  /\ pc = "idle"
  /\ \E iw \in 1..MaxCropIn, ih \in 1..MaxCropIn, ow \in 1..MaxCropIn,
        oh \in 1..MaxCropIn, g \in Gravities, l \in Positions, t \in Positions :
       /\ g # CUSTOM => (l = 0 /\ t = 0)
       /\ LET lt == sharpCalcCrop(iw, ih, ow, oh, l, t, g) IN
          crop' = [inWidth |-> iw, inHeight |-> ih, outWidth |-> ow,
                   outHeight |-> oh, gravity |-> g, leftPos |-> l,
                   topPos |-> t, left |-> lt[1], top |-> lt[2]]
  /\ call' = "sharpCalcCrop"
  /\ pc' = "done"
  /\ UNCHANGED <<lifeVars, argVars, o, image, tmpImage, sizeVars, planVars,
                 handles, events, ret>>

(***************************************************************************)
(* Specifications.                                                         *)
(***************************************************************************)
\* Resize and AutoRotate, called one after another.
Next ==
  \/ ResizeCall
  \/ ResizeLoad
  \/ ResizePlan
  \/ ResizeReload
  \/ ResizeShrink
  \/ ResizeAffine
  \/ ResizeCanvas
  \/ ResizeColourspace
  \/ ResizeSave
  \/ AutoRotateCall
  \/ AutoRotateResolve
  \/ AutoRotateApply
  \/ AutoRotateSave
  \/ CallReturn

Spec == Init /\ [][Next]_vars

\* Initialize and Shutdown in any order, between calls of AutoRotate.
NextLifecycle ==
  \/ Initialize
  \/ Shutdown
  \/ AutoRotateCall
  \/ AutoRotateResolve
  \/ AutoRotateApply
  \/ AutoRotateSave
  \/ CallReturn

SpecLifecycle == Init /\ [][NextLifecycle]_vars

\* rotateAndFlipImage on its own.
NextOrient ==
  \/ RotateAndFlipCall
  \/ RotateAndFlipResolve
  \/ RotateAndFlipRotate
  \/ RotateAndFlipFlip
  \/ CallReturn

SpecOrient == Init /\ [][NextOrient]_vars

\* sharpCalcCrop on its own.
NextCrop ==
  \/ CalcCropCall
  \/ CallReturn

SpecCrop == Init /\ [][NextCrop]_vars

(***************************************************************************)
(* Properties.                                                             *)
(***************************************************************************)
EventIds == DOMAIN events
SaveOps == {"jpegsave", "pngsave", "webpsave"}
GeometryOps == {"jpegload_shrink", "shrink", "affine", "extract_area", "embed"}
\* Resize has run its planning step (lines 180-247)
Planned == call = "Resize" /\ shrinkOnLoad >= 1
\* the call ended by returning an encoded image and no error
Succeeded == pc = "done" /\ ret.kind = "return" /\ ret.err = "nil" /\ ret.buf = "image"

\* C1: in Resize a native step that fails aborts the pipeline: Resize
\* returns a non-nil error and no buffer, and the failed step is the last
\* native step of the call.
C1_FailureAborts ==
  (call = "Resize" /\ pc = "done" /\ \E i \in EventIds : ~events[i].ok)
    => /\ ret.kind = "return"
       /\ ret.err # "nil"
       /\ ret.buf = "nil"
       /\ ~events[Len(events)].ok

\* C2: when Resize or AutoRotate has ended, every native image created
\* during the call has been released exactly once, and no native operation
\* was given an image that had been released.
C2_ReleasedExactlyOnce ==
  (call \in {"Resize", "AutoRotate"} /\ pc = "done")
    => /\ \A id \in DOMAIN handles : handles[id].unrefs = 1
       /\ \A i \in EventIds : ~events[i].stale

\* C3: a successful Resize with NoAutoRotate = false and no explicit
\* rotation or flip, on an image whose EXIF orientation maps to a non-zero
\* rotation, rotates by that angle before it encodes.
C3_ExifRotationBeforeSave ==
  (/\ call = "Resize" /\ Succeeded
   /\ \A i \in EventIds : events[i].ok
   /\ ~callOpts.NoAutoRotate /\ callOpts.Rotate = 0
   /\ ~callOpts.Flip /\ ~callOpts.Flop
   /\ calculateRotationAndFlip(handles[1].exif, 0).rotate # 0)
    => \E i \in EventIds, j \in EventIds :
         /\ i < j
         /\ events[i].op = "rotate"
         /\ events[i].arg = calculateRotationAndFlip(handles[1].exif, 0).rotate
         /\ events[j].op \in SaveOps

\* The classifier of the specification: UNKNOWN below 12 bytes.
RefClassify(b) ==
  IF b.len < 12 THEN UNKNOWN
  ELSE IF SubSeq(b.data, 1, 2) = <<255, 216>> THEN JPEG
  ELSE IF SubSeq(b.data, 1, 2) = <<137, 80>> THEN PNG
  ELSE IF SubSeq(b.data, 1, 4) = <<82, 73, 70, 70>>
          /\ SubSeq(b.data, 9, 12) = <<87, 69, 66, 80>> THEN WEBP
  ELSE UNKNOWN

\* C4: for a buffer of any length the format check of Resize agrees with
\* the reference classifier, reads no index outside the buffer, and on
\* UNKNOWN returns "unknown image format" before any native call.
C4_FormatCheck ==
  (call = "Resize" /\ pc # "idle")
    => /\ ~SniffFormat(buf).panic
       /\ SniffFormat(buf).read <= buf.len
       /\ typ = RefClassify(buf)
       /\ RefClassify(buf) = UNKNOWN
            => (pc = "done" /\ ret = ReturnError("unknown image format")
                /\ events = <<>>)

\* C5: with Enlarge = false, Width > inWidth and Height > inHeight, Resize
\* plans the identity (shrink 1, shrink-on-load 1, residual 0, target size
\* the input size), runs no reload, shrink, affine, crop or embed step, and
\* the encoded image has the input's size.
C5_EnlargeGuardIdentity ==
  (/\ Planned /\ pc # "plan"
   /\ ~callOpts.Enlarge
   /\ callOpts.Width > inWidth /\ callOpts.Height > inHeight)
    => /\ shrink = 1 /\ shrinkOnLoad = 1 /\ residual = QInt(0)
       /\ o.Width = inWidth /\ o.Height = inHeight
       /\ \A i \in EventIds : events[i].op \notin GeometryOps
       /\ Succeeded => (ret.w = inWidth /\ ret.h = inHeight)

\* a Resize that met the enlarge guard, with Crop and Embed set, has
\* returned an image of the input's size
C5_Witness ==
  /\ Planned /\ Succeeded
  /\ ~callOpts.Enlarge /\ callOpts.Crop /\ callOpts.Embed
  /\ callOpts.Width > inWidth /\ callOpts.Height > inHeight
  /\ ret.w = inWidth /\ ret.h = inHeight

\* C6: as long as native initialization succeeds, the native init and
\* shutdown calls alternate, starting with init, and `initialized` is true
\* exactly when the engine has been initialized and not yet shut down.
C6_LifecycleAlternates ==
  (\A i \in DOMAIN lifecycle : lifecycle[i] # "init_failed")
    => /\ \A i \in DOMAIN lifecycle :
            lifecycle[i] = IF i % 2 = 1 THEN "init" ELSE "shutdown"
       /\ initialized <=> (Len(lifecycle) % 2 = 1)

\* the engine has been shut down and initialized again
C6_Witness ==
  /\ lifecycle = <<"init", "shutdown", "init">>
  /\ initialized

DeclaredAngles == {D90, D180, D270}
RotateArgs == {events[i].arg : i \in {j \in EventIds : events[j].op = "rotate"}}
FlipArgs == {events[i].arg : i \in {j \in EventIds : events[j].op = "flip"}}
RotateAndFlipDone == call = "rotateAndFlipImage" /\ pc = "done"
\* what the caller alone asked for
CallerRotation == IF callOpts.Rotate \in DeclaredAngles THEN {callOpts.Rotate} ELSE {}
CallerFlip == IF callOpts.Flip THEN {HORIZONTAL}
              ELSE IF callOpts.Flop THEN {VERTICAL} ELSE {}

\* C7 as claimed: with an explicit non-zero Rotate and NoAutoRotate false
\* the caller's angle is applied and the EXIF flip (orientation 2, 4, 5, 7)
\* is still applied as a horizontal flip; with NoAutoRotate true only the
\* caller's rotation and flip are applied.
C7_ExifFlipHonoured ==
  (RotateAndFlipDone /\ callOpts.Rotate \in DeclaredAngles \cup {D0})
    => /\ (~callOpts.NoAutoRotate /\ callOpts.Rotate # D0)
            => /\ RotateArgs = {callOpts.Rotate}
               /\ handles[1].exif \in {2, 4, 5, 7} => HORIZONTAL \in FlipArgs
       /\ callOpts.NoAutoRotate
            => (RotateArgs = CallerRotation /\ FlipArgs = CallerFlip)

\* C7 as amended: with an explicit non-zero Rotate the EXIF orientation is
\* ignored altogether, rotation and flip alike, whether or not NoAutoRotate
\* is set: only the caller's rotation and flip are applied.
C7_ExplicitRotateIgnoresExif ==
  (RotateAndFlipDone /\ callOpts.Rotate \in DeclaredAngles \cup {D0})
    => /\ callOpts.Rotate # D0
            => (RotateArgs = {callOpts.Rotate} /\ FlipArgs = CallerFlip)
       /\ callOpts.NoAutoRotate
            => (RotateArgs = CallerRotation /\ FlipArgs = CallerFlip)

\* an explicit rotation on an image whose EXIF orientation asks for a
\* flip: the rotation is applied and no flip is
C7_Witness ==
  /\ RotateAndFlipDone
  /\ callOpts.Rotate = D90 /\ ~callOpts.NoAutoRotate
  /\ ~callOpts.Flip /\ ~callOpts.Flop
  /\ handles[1].exif = 2
  /\ RotateArgs = {D90}
  /\ FlipArgs = {}

\* C8: for every gravity, 0 < outWidth <= inWidth, 0 < outHeight <=
\* inHeight and custom positions in [0,1], sharpCalcCrop returns an origin
\* with 0 <= left <= inWidth-outWidth and 0 <= top <= inHeight-outHeight;
\* for CENTRE the two margins of an axis differ by at most one pixel.
C8_CropOriginInside ==
  (/\ call = "sharpCalcCrop" /\ pc = "done"
   /\ crop.outWidth <= crop.inWidth /\ crop.outHeight <= crop.inHeight)
    => /\ 0 <= crop.left /\ crop.left <= crop.inWidth - crop.outWidth
       /\ 0 <= crop.top /\ crop.top <= crop.inHeight - crop.outHeight
       /\ crop.gravity \notin {NORTH, EAST, SOUTH, WEST, CUSTOM}
            => /\ Abs(crop.inWidth - crop.outWidth - 2 * crop.left) <= 1
               /\ Abs(crop.inHeight - crop.outHeight - 2 * crop.top) <= 1

\* a custom position at the far edge has been clamped to the last origin
\* that keeps the crop inside the source
C8_Witness ==
  /\ call = "sharpCalcCrop" /\ pc = "done"
  /\ crop.gravity = CUSTOM
  /\ crop.leftPos = FracDen /\ crop.topPos = FracDen
  /\ crop.outWidth < crop.inWidth /\ crop.outHeight < crop.inHeight
  /\ crop.left = crop.inWidth - crop.outWidth
  /\ crop.top = crop.inHeight - crop.outHeight

\* The table of the specification.
RefShrinkOnLoad(t, s) ==
  IF t # JPEG THEN 1
  ELSE IF s = 1 THEN 1
  ELSE IF s \in {2, 3} THEN 2
  ELSE IF s \in 4..7 THEN 4
  ELSE 8

\* C9: the shrink-on-load factor is 1, 2, 4 or 8 by the table for a JPEG
\* and 1 for PNG and WEBP; when it is above 1 the scale factor has been
\* divided by it and the integral shrink is recomputed as
\* floor(max(factor/shrinkOnLoad, 1)), which is at least 1.
C9_ShrinkOnLoad ==
  /\ (Planned /\ pc = "reload")
       => /\ shrinkOnLoad = RefShrinkOnLoad(typ, shrink)
          /\ shrink = Max(1, QFloor(Q(factor[1] * shrinkOnLoad, factor[2])))
  /\ (Planned /\ pc \notin {"plan", "reload"} /\ shrinkOnLoad > 1)
       => /\ shrink >= 1
          /\ shrink = QFloor(QMax(QDivInt(PlanSize(inWidth, inHeight, callOpts).factor,
                                          shrinkOnLoad), QInt(1)))
          /\ shrink = QFloor(factor)

\* a JPEG sixteen times too wide has been decoded again with
\* shrink-on-load 8, and an integral shrink of 2 remains
C9_Witness ==
  /\ Planned /\ pc = "shrink"
  /\ typ = JPEG /\ shrinkOnLoad = 8 /\ shrink = 2
  /\ inWidth = 16 /\ callOpts.Width = 1

\* C10: with Enlarge = false, when the input width or the input height is
\* below the required (requested or derived) dimension, the residual scale
\* is never above 1 and the output exceeds the input on neither axis.
C10_NoEnlargement ==
  (/\ Planned /\ pc # "plan"
   /\ ~callOpts.Enlarge
   /\ \/ inWidth < PlanSize(inWidth, inHeight, callOpts).Width
      \/ inHeight < PlanSize(inWidth, inHeight, callOpts).Height)
    => /\ QLe(residual, QInt(1))
       /\ Succeeded => (ret.w <= inWidth /\ ret.h <= inHeight)

=============================================================================
